---------------------------- MODULE Spec2Model ----------------------------
(***************************************************************************)
(* A model of the request handlers of markdown-oxide: the heading outline  *)
(* builder (symbol.rs), the unresolved-reference diagnostics               *)
(* (diagnostics.rs), the create-file code actions (codeactions.rs), the    *)
(* workspace symbols (symbol.rs), notebook matching (daily.rs) and the     *)
(* note command (commands.rs).                                             *)
(*                                                                         *)
(* Strings are sequences of one-character strings, so that paths, file     *)
(* extensions and date formats are computed character by character.        *)
(* Option<T> is a record: None, or Some(v) with the value in .val.         *)
(***************************************************************************)
EXTENDS Integers, Sequences, FiniteSets, TLC

VARIABLES
    headings,       \* vault.select_headings(path): the document's headings, in order
    outline,        \* the last document_symbol response (Option of a forest)
    outlineOf,      \* the heading snapshot that response was built from
    md_files,       \* vault.select_references(Some(path)) for every path: Option of a list
    referenceables, \* vault.select_referenceable_nodes(None)
    published,      \* per document, the diagnostics the client last received
    caRequest,      \* the last code_actions request: Option of [path, range]
    caResponse,     \* and its response: Option of a list of code actions
    dailynote,      \* settings.dailynote: the daily-note format
    today,          \* the local clock: the current day (days since Epoch)
    wsResponse,     \* the last workspace_symbol response (Option of a list)
    notebooks,      \* settings.notebooks: the notebooks in configured order
    matchCall,      \* the last match_notebook call and what it returned
    files,          \* the file system: the content of every existing file
    dirs,           \* the file system: the existing directories
    noteCall        \* the last execution of the note command

treeVars == <<headings, outline, outlineOf>>

vaultVars == <<md_files, referenceables, published, caRequest, caResponse>>

symbolVars == <<dailynote, today, wsResponse>>

noteVars == <<notebooks, matchCall, files, dirs, noteCall>>

vars == <<headings, outline, outlineOf,
          md_files, referenceables, published, caRequest, caResponse,
          dailynote, today, wsResponse,
          notebooks, matchCall, files, dirs, noteCall>>

None == [some |-> FALSE]

Some(v) == [some |-> TRUE, val |-> v]

\* Option<Vec<T>>::into_iter().flatten(): the elements, or nothing.
OptFlatten(o) == IF o.some THEN o.val ELSE <<>>

(***************************************************************************)
(* The vault as the indexer hands it to a request: documents, references   *)
(* and referenceables. A reference is its kind, its target text and its    *)
(* range; a referenceable is modelled by the references it answers to.     *)
(***************************************************************************)
Paths == {"a.md", "b.md"}

PathOrder == <<"a.md", "b.md">>

Kinds == {"WikiLink", "Footnote"}

Position(line, character) == [line |-> line, character |-> character]

Range(sl, sc, el, ec) == [start |-> Position(sl, sc), end |-> Position(el, ec)]

Reference(kind, text, range) == [kind |-> kind, reference_text |-> text, range |-> range]

SeqsUpTo(S, n) == UNION {[1..k -> S] : k \in 0..n}

TreeIdle ==
    /\ headings = <<>>
    /\ outline = None
    /\ outlineOf = <<>>

VaultIdle ==
    /\ md_files = [p \in Paths |-> None]
    /\ referenceables = {}
    /\ published = [p \in Paths |-> None]
    /\ caRequest = None
    /\ caResponse = None

\* The default of settings.dailynote: %Y-%m-%d, as strftime items.
DefaultDailynote == <<"%Y", "-", "%m", "-", "%d">>

SymbolIdle ==
    /\ dailynote = DefaultDailynote
    /\ today = 7
    /\ wsResponse = None

\* vault.root_dir()
Root == <<"/", "v">>

NoteIdle ==
    /\ notebooks = <<>>
    /\ matchCall = None
    /\ files = <<>>
    /\ dirs = {<<"/">>, Root}
    /\ noteCall = None

(***************************************************************************)
(* Strings and paths (std::path on Unix), character by character.          *)
(***************************************************************************)
Last(s) == s[Len(s)]

Front(s) == SubSeq(s, 1, Len(s) - 1)

\* str::contains for a one-character pattern.
Contains(s, c) == \E i \in 1..Len(s) : s[i] = c

\* The index of the last occurrence of c in s[1..e], or 0.
LastIndexOf(s, e, c) ==
    LET hits == {i \in 1..e : s[i] = c}
    IN  IF hits = {} THEN 0 ELSE CHOOSE i \in hits : \A j \in hits : j <= i

IsAbsolute(p) == p # <<>> /\ p[1] = "/"

\* PathBuf::push / Path::join: an absolute argument replaces the path,
\* otherwise it is appended after a separator.
PathPush(base, rel) ==
    IF IsAbsolute(rel) THEN rel
    ELSE IF base = <<>> \/ Last(base) = "/" THEN base \o rel
    ELSE base \o <<"/">> \o rel

\* Where the last component ends: trailing separators and trailing "."
\* components are not components (Path::components).
RECURSIVE EffEnd(_)
EffEnd(p) ==
    IF p = <<>> THEN 0
    ELSE IF Last(p) = "/" THEN EffEnd(Front(p))
    ELSE IF Last(p) = "." /\ Len(p) >= 2 /\ p[Len(p) - 1] = "/" THEN EffEnd(Front(p))
    ELSE Len(p)

\* Where the last component starts.
NameStart(p) == LastIndexOf(p, EffEnd(p), "/") + 1

\* Path::file_name: None for the root, for "." and for a path ending in "..".
file_name(p) ==
    LET e    == EffEnd(p)
        name == SubSeq(p, NameStart(p), e)
    IN  IF e = 0 \/ name = <<".", ".">> \/ name = <<".">> THEN None ELSE Some(name)

\* Path::file_stem: the file name up to its last '.', the whole name when it
\* has no '.' or only a leading one.
StemLen(name) ==
    LET dot == LastIndexOf(name, Len(name), ".")
    IN  IF dot <= 1 THEN Len(name) ELSE dot - 1

\* PathBuf::set_extension / Path::with_extension with a non-empty extension:
\* nothing without a file name; otherwise the path is cut right after the
\* file stem and "." and the extension are appended.
set_extension(p, ext) ==
    LET fname == file_name(p)
    IN  IF ~fname.some THEN p
        ELSE SubSeq(p, 1, NameStart(p) - 1 + StemLen(fname.val)) \o <<".">> \o ext

Md == <<"m", "d">>

\* Url::from_file_path: Err for a path that is not absolute.
from_file_path(p) ==
    IF IsAbsolute(p) THEN Some([scheme |-> "file", path |-> p]) ELSE None

\* Url::to_file_path of a file url.
to_file_path(uri) == uri.path

(***************************************************************************)
(* Dates (chrono::NaiveDate) and strftime. A day is counted from the Epoch *)
(* of the model, 2023-12-20, a Wednesday; the calendar is the Gregorian    *)
(* one. A format is its sequence of strftime items: the specifiers %Y, %m  *)
(* and %d, and literal characters.                                         *)
(***************************************************************************)
Epoch == [year |-> 2023, month |-> 12, day |-> 20]

IsLeap(y) == (y % 4 = 0 /\ y % 100 # 0) \/ y % 400 = 0

DaysIn(y, m) ==
    IF m = 2 THEN (IF IsLeap(y) THEN 29 ELSE 28)
    ELSE IF m \in {4, 6, 9, 11} THEN 30 ELSE 31

NextDay(d) ==
    IF d.day < DaysIn(d.year, d.month) THEN [d EXCEPT !.day = d.day + 1]
    ELSE IF d.month < 12 THEN [d EXCEPT !.month = d.month + 1, !.day = 1]
    ELSE [year |-> d.year + 1, month |-> 1, day |-> 1]

\* The NaiveDate of day n >= 0.
RECURSIVE DateOf(_)
DateOf(n) == IF n = 0 THEN Epoch ELSE NextDay(DateOf(n - 1))

Weekdays ==
    <<"Monday", "Tuesday", "Wednesday", "Thursday", "Friday", "Saturday", "Sunday">>

\* date.format("%A")
WeekdayOf(n) == Weekdays[((n + 2) % 7) + 1]

Digits == <<"0", "1", "2", "3", "4", "5", "6", "7", "8", "9">>

\* A number in width digits, zero-padded.
RECURSIVE Pad(_, _)
Pad(n, width) ==
    IF width = 0 THEN <<>> ELSE Pad(n \div 10, width - 1) \o <<Digits[(n % 10) + 1]>>

IsDigit(c) == \E d \in 1..10 : Digits[d] = c

DigitOf(c) == (CHOOSE d \in 1..10 : Digits[d] = c) - 1

Specifiers == {"%Y", "%m", "%d"}

\* The field a specifier reads and writes, and its width.
FieldOf(item) == IF item = "%Y" THEN "year" ELSE IF item = "%m" THEN "month" ELSE "day"

WidthOf(item) == IF item = "%Y" THEN 4 ELSE 2

FormatItem(date, item) ==
    IF item \in Specifiers THEN Pad(date[FieldOf(item)], WidthOf(item)) ELSE <<item>>

\* date.format(fmt).to_string()
RECURSIVE FormatDate(_, _)
FormatDate(date, items) ==
    IF items = <<>> THEN <<>>
    ELSE FormatItem(date, items[1]) \o FormatDate(date, Tail(items))

(***************************************************************************)
(* Bounds of the outline model.                                            *)
(***************************************************************************)
MaxHeadings == 5

MaxLevel == 3

HeadingLevels == 1..MaxLevel

\* An MDHeading: its level and its range (the line it stands on). The
\* heading text is payload that construct_tree only clones.
MDHeading(level, line) == [level |-> level, range |-> line]

(***************************************************************************)
(* symbol.rs: construct_tree.                                              *)
(***************************************************************************)

\* rest.iter().find_position(|heading| first.level >= heading.level):
\* the first index (1-based here) of a heading that ends first's section,
\* or 0 when there is none.
break_index_gt(first, rest) ==
    LET hits == {i \in 1..Len(rest) : first.level > rest[i].level}
    IN  IF hits = {} THEN 0 ELSE CHOOSE i \in hits : \A j \in hits : i <= j

\* The search with a level gap (a heading more than one level deeper) taken
\* as the end of first's section too.
break_index_gap(first, rest) ==
    LET hits == {i \in 1..Len(rest) : \/ first.level >= rest[i].level
                                      \/ rest[i].level > first.level + 1}
    IN  IF hits = {} THEN 0 ELSE CHOOSE i \in hits : \A j \in hits : i <= j

break_index(first, rest) ==
    LET hits == {i \in 1..Len(rest) : first.level >= rest[i].level}
    IN  IF hits = {} THEN 0 ELSE CHOOSE i \in hits : \A j \in hits : i <= j

Node(heading, children) == [heading |-> heading, children |-> children]

\* The Some branch with the slice after the break point taken one too far.
split_rest_skip(rest, index) == SubSeq(rest, index + 1, Len(rest))

\* &rest[index..] of the source (index is 1-based here).
split_rest(rest, index) == SubSeq(rest, index, Len(rest))

RECURSIVE construct_tree(_)
construct_tree(hs) ==
    IF Len(hs) = 1
    THEN Some(<<Node(hs[1], None)>>)
    ELSE IF Len(hs) >= 2
    THEN LET first == hs[1]
             rest  == Tail(hs)
             index == break_index(first, rest)
         IN  IF index # 0
             THEN LET to_next == SubSeq(rest, 1, index - 1)
                      node    == Node(first, construct_tree(to_next))
                  IN  Some(<<node>> \o OptFlatten(construct_tree(split_rest(rest, index))))
             ELSE Some(<<Node(first, construct_tree(rest))>>)
    ELSE None

(***************************************************************************)
(* Reading a forest back: pre-order flattening, parents and ancestors.     *)
(***************************************************************************)
RECURSIVE PreOrderSeq(_)
PreOrderSeq(nodes) ==
    IF nodes = <<>> THEN <<>>
    ELSE <<nodes[1].heading>>
         \o PreOrderSeq(OptFlatten(nodes[1].children))
         \o PreOrderSeq(Tail(nodes))

PreOrder(forest) == PreOrderSeq(OptFlatten(forest))

\* The pairs <<child range, parent range>>; a root has parent 0.
RECURSIVE ParentPairsSeq(_, _)
ParentPairsSeq(nodes, parent) ==
    IF nodes = <<>> THEN {}
    ELSE {<<nodes[1].heading.range, parent>>}
         \cup ParentPairsSeq(OptFlatten(nodes[1].children), nodes[1].heading.range)
         \cup ParentPairsSeq(Tail(nodes), parent)

ParentPairs(forest) == ParentPairsSeq(OptFlatten(forest), 0)

ParentOf(forest, line) ==
    LET ps == {p \in ParentPairs(forest) : p[1] = line}
    IN  IF ps = {} THEN -1 ELSE (CHOOSE p \in ps : TRUE)[2]

RECURSIVE IsAncestor(_, _, _)
IsAncestor(forest, a, b) ==
    LET p == ParentOf(forest, b)
    IN  IF p <= 0 THEN FALSE ELSE p = a \/ IsAncestor(forest, a, p)

\* children is None or a non-empty list, never Some(empty).
RECURSIVE NoEmptyChildren(_)
NoEmptyChildren(nodes) ==
    \A i \in 1..Len(nodes) :
        nodes[i].children.some =>
            /\ nodes[i].children.val # <<>>
            /\ NoEmptyChildren(nodes[i].children.val)

(***************************************************************************)
(* The indexer's interface (vault): the resolution predicates and the      *)
(* selections the handlers call.                                           *)
(***************************************************************************)
RefKey(reference, path) == <<path, reference.kind, reference.reference_text>>

\* Referenceable::is_reference(root_dir, reference, path): the loose predicate.
is_reference(referenceable, root, reference, path) ==
    RefKey(reference, path) \in referenceable.loose

\* Referenceable::matches_reference(root_dir, reference, path): the strict one.
matches_reference(referenceable, root, reference, path) ==
    RefKey(reference, path) \in referenceable.strict

\* Reference::matches_type: the two references are of the same kind.
matches_type(other, reference) == other.kind = reference.kind

\* vault.select_references(Some(path)): the (path, reference) pairs of one
\* document, None for a document the index does not hold.
select_references(path) ==
    IF md_files[path].some
    THEN Some([i \in 1..Len(md_files[path].val) |-> <<path, md_files[path].val[i]>>])
    ELSE None

\* vault.select_references(None): the pairs of every document.
RECURSIVE AllPairs(_)
AllPairs(paths) ==
    IF paths = <<>> THEN <<>>
    ELSE OptFlatten(select_references(paths[1])) \o AllPairs(Tail(paths))

select_references_all == Some(AllPairs(PathOrder))

(***************************************************************************)
(* diagnostics.rs: diagnostics.                                            *)
(***************************************************************************)

\* The filter with the strict predicate in the place of the loose one.
is_unresolved_strict(reference, path) ==
    ~\E referenceable \in referenceables :
        matches_reference(referenceable, Root, reference, path)

\* The filter of line 20: no referenceable is_reference of it.
is_unresolved(reference, path) ==
    ~\E referenceable \in referenceables :
        is_reference(referenceable, Root, reference, path)

\* The count of lines 26-30, over allreferences.
usage_count(allreferences, reference, path) ==
    LET Same(pair) ==
            /\ matches_type(pair[2], reference)
            /\ (reference.kind # "Footnote" \/ pair[1] = path)
            /\ pair[2].reference_text = reference.reference_text
    IN  Cardinality({i \in 1..Len(allreferences) : Same(allreferences[i])})

\* The message of lines 26-33.
message(num) ==
    IF num > 1 THEN <<"Unresolved Reference used ", num, " times">>
    ELSE <<"Unresolved Reference">>

Diagnostic(allreferences, reference, path) ==
    [range    |-> reference.range,
     message  |-> message(usage_count(allreferences, reference, path)),
     source   |-> "Obsidian LS",
     severity |-> "INFORMATION"]

diagnostics(path) ==
    LET pathreferences == select_references(path)
        allreferences  == select_references_all
    IN  /\ IF ~pathreferences.some \/ ~allreferences.some
           THEN UNCHANGED published
           ELSE LET Unresolved(pair) == is_unresolved(pair[2], pair[1])
                    unresolved == SelectSeq(pathreferences.val, Unresolved)
                    diags == [i \in 1..Len(unresolved) |->
                                Diagnostic(allreferences.val, unresolved[i][2],
                                           unresolved[i][1])]
                IN  published' = [published EXCEPT ![path] = Some(diags)]
        /\ UNCHANGED <<md_files, referenceables, caRequest, caResponse, treeVars, symbolVars, noteVars>>

(***************************************************************************)
(* The diagnostics model: the index holds any small vault, and diagnostics *)
(* runs for any document, in any order.                                    *)
(***************************************************************************)
MaxRefs == 2

MaxReferenceables == 2

DiagTexts == {<<"x">>, <<"y">>}

DiagKeys == Kinds \X DiagTexts

\* The references of a document, one per line, in document order.
DiagRefs(keys) ==
    [i \in 1..Len(keys) |->
        Reference(keys[i][1], keys[i][2], Range(i - 1, 0, i - 1, Len(keys[i][2]) + 4))]

DiagDocs == {None} \cup {Some(DiagRefs(keys)) : keys \in SeqsUpTo(DiagKeys, MaxRefs)}

RefCount(doc) == IF doc.some THEN Len(doc.val) ELSE 0

\* A referenceable answers to one target text of one kind written in one
\* document. The strict predicate is the loose one with more checks: here
\* the target y passes the loose checks only.
DiagReferenceables ==
    {[loose |-> {k}, strict |-> IF k[3] = <<"x">> THEN {k} ELSE {}] :
        k \in Paths \X Kinds \X DiagTexts}

DiagInit ==
    /\ TreeIdle
    /\ NoteIdle
    /\ SymbolIdle
    /\ md_files \in {ix \in [Paths -> DiagDocs] :
                    RefCount(ix["a.md"]) + RefCount(ix["b.md"]) <= MaxRefs}
    /\ referenceables \in {R \in SUBSET DiagReferenceables :
                              Cardinality(R) <= MaxReferenceables}
    /\ published = [p \in Paths |-> None]
    /\ caRequest = None
    /\ caResponse = None

RunDiagnostics == \E path \in Paths : diagnostics(path)

DiagNext == RunDiagnostics

SpecDiag == DiagInit /\ [][DiagNext]_vars

\* The references of a document that no referenceable loosely matches.
UnresolvedAt(path) ==
    {i \in 1..RefCount(md_files[path]) :
        ~\E rb \in referenceables : RefKey(md_files[path].val[i], path) \in rb.loose}

DiagsFor(path, range) ==
    {k \in 1..Len(published[path].val) : published[path].val[k].range = range}

(***************************************************************************)
(* C3: for a document the index holds, the published diagnostics are one   *)
(* per reference that no referenceable is_reference of, none for a         *)
(* reference that some referenceable matches, each with the reference's    *)
(* range and severity Information.                                         *)
(***************************************************************************)
C3_OnePerUnresolved ==
    \A path \in Paths :
        published[path].some =>
            /\ md_files[path].some
            /\ Len(published[path].val) = Cardinality(UnresolvedAt(path))
            /\ \A i \in 1..Len(md_files[path].val) :
                  Cardinality(DiagsFor(path, md_files[path].val[i].range))
                      = IF i \in UnresolvedAt(path) THEN 1 ELSE 0
            /\ \A k \in 1..Len(published[path].val) :
                  published[path].val[k].severity = "INFORMATION"

C3_Witness ==
    \E path \in Paths :
        /\ published[path].some
        /\ Len(md_files[path].val) >= 2
        /\ UnresolvedAt(path) # {}
        /\ UnresolvedAt(path) # 1..Len(md_files[path].val)

\* The number of unresolved references, vault-wide, of the kind and target
\* text of the i-th reference of path; for a footnote, of path only.
UnresolvedUses(path, i) ==
    LET r == md_files[path].val[i]
    IN  Cardinality({<<q, j>> \in Paths \X (1..MaxRefs) :
            /\ j \in UnresolvedAt(q)
            /\ md_files[q].val[j].kind = r.kind
            /\ md_files[q].val[j].reference_text = r.reference_text
            /\ (r.kind = "Footnote" => q = path)})

(***************************************************************************)
(* C4: the count in the message of an unresolved reference is the number   *)
(* of unresolved references vault-wide of its kind and target text (for a  *)
(* footnote: of its own document); "used {count} times" when it is above   *)
(* 1. References that are resolved do not count.                           *)
(***************************************************************************)
C4_CountsUnresolvedOnly ==
    \A path \in Paths :
        published[path].some =>
            \A i \in UnresolvedAt(path) :
                \A k \in DiagsFor(path, md_files[path].val[i].range) :
                    published[path].val[k].message =
                        IF UnresolvedUses(path, i) > 1
                        THEN <<"Unresolved Reference used ", UnresolvedUses(path, i), " times">>
                        ELSE <<"Unresolved Reference">>

(***************************************************************************)
(* codeactions.rs: code_actions.                                           *)
(***************************************************************************)

\* pathdiff::diff_paths(path, base) for absolute, normalised paths and the
\* one-component root of this model: the part below base, or a climb out of
\* it.
diff_paths(path, base) ==
    IF Len(path) > Len(base) + 1 /\ SubSeq(path, 1, Len(base) + 1) = base \o <<"/">>
    THEN Some(SubSeq(path, Len(base) + 2, Len(path)))
    ELSE IF path = base THEN Some(<<>>)
    ELSE Some(<<".", ".">> \o path)

\* The candidate filter without the test for '#'.
is_candidate_anchored(reference, path, range) ==
    /\ ~\E referenceable \in referenceables :
          matches_reference(referenceable, Root, reference, path)
    /\ reference.range.start.line = range.start.line
    /\ reference.range.start.character <= range.start.character
    /\ reference.range.end.character >= range.end.character

\* The filter of lines 23-32.
is_candidate(reference, path, range) ==
    /\ ~\E referenceable \in referenceables :
          matches_reference(referenceable, Root, reference, path)
    /\ ~Contains(reference.reference_text, "#")
    /\ reference.range.start.line = range.start.line
    /\ reference.range.start.character <= range.start.character
    /\ reference.range.end.character >= range.end.character

\* Lines 40-43: the path of the file to create.
new_path_buf(reference) ==
    set_extension(PathPush(PathPush(<<>>, Root), reference.reference_text), Md)

\* Lines 38-63: the action of one candidate; None drops it (filter_map).
\* The field "of" is not in the source: it remembers the reference the
\* action was made for, so that properties can tell the actions apart.
create_file_action(reference) ==
    LET new_path == from_file_path(new_path_buf(reference))
        relative == diff_paths(new_path_buf(reference), Root)
    IN  IF ~new_path.some \/ ~relative.some THEN None
        ELSE Some([title |-> <<"Create File: ", relative.val>>,
                   edit  |-> <<[op |-> "Create",
                                uri |-> new_path.val,
                                options |-> None,
                                annotation_id |-> None,
                                of |-> reference]>>])

\* filter_map(..).collect() over the candidates, in their order.
RECURSIVE create_file_actions(_)
create_file_actions(pairs) ==
    IF pairs = <<>> THEN <<>>
    ELSE OptFlatten(LET a == create_file_action(pairs[1][2])
                    IN  IF a.some THEN Some(<<a.val>>) ELSE None)
         \o create_file_actions(Tail(pairs))

code_actions(path, range) ==
    LET pathreferences == select_references(path)
        allreferences  == select_references_all
    IN  /\ caRequest' = Some([path |-> path, range |-> range])
        /\ IF ~pathreferences.some \/ ~allreferences.some
           THEN caResponse' = None
           ELSE LET Candidate(pair) == is_candidate(pair[2], pair[1], range)
                    unresolved_file_links == SelectSeq(pathreferences.val, Candidate)
                IN  caResponse' = Some(create_file_actions(unresolved_file_links))
        /\ UNCHANGED <<md_files, referenceables, published, treeVars, symbolVars, noteVars>>

(***************************************************************************)
(* The code-action model: one document with any few references, and a      *)
(* request for any selection range in it.                                  *)
(***************************************************************************)
MaxActionRefs == 3

\* Target texts: plain, anchored, with an extension, hidden, in a folder.
ActionTexts ==
    {<<"a">>, <<"b">>, <<"a", "#", "h">>, <<"a", ".", "b">>,
     <<"d", "/", "a", ".", "b", ".", "c">>}

\* References take one of two slots of a line.
ActionRanges == {Range(l, c, l, c + 2) : l \in 0..1, c \in {0, 2}}

ActionReferences ==
    {Reference("WikiLink", t, rg) : t \in ActionTexts, rg \in ActionRanges}

\* Document order: each reference ends before the next one starts.
InDocumentOrder(refs) ==
    \A i \in 1..(Len(refs) - 1) :
        \/ refs[i].range.end.line < refs[i + 1].range.start.line
        \/ /\ refs[i].range.end.line = refs[i + 1].range.start.line
           /\ refs[i].range.end.character <= refs[i + 1].range.start.character

\* A selection: its end is not before its start.
RequestRanges ==
    {rg \in {Range(sl, sc, el, ec) : sl \in 0..1, sc \in 1..3, el \in 0..2, ec \in 1..3} :
        \/ rg.start.line + 1 = rg.end.line
        \/ rg.start.line = rg.end.line /\ rg.start.character <= rg.end.character}

\* The files a and b exist: a is matched strictly, b loosely only.
ActionReferenceables ==
    {[loose  |-> {<<"a.md", "WikiLink", <<"a">>>>},
      strict |-> {<<"a.md", "WikiLink", <<"a">>>>}],
     [loose  |-> {<<"a.md", "WikiLink", <<"b">>>>},
      strict |-> {}]}

ActionInit ==
    /\ TreeIdle
    /\ NoteIdle
    /\ SymbolIdle
    /\ \E refs \in SeqsUpTo(ActionReferences, MaxActionRefs) :
          /\ InDocumentOrder(refs)
          /\ md_files = [p \in Paths |-> IF p = "a.md" THEN Some(refs) ELSE None]
    /\ referenceables = ActionReferenceables
    /\ published = [p \in Paths |-> None]
    /\ caRequest = None
    /\ caResponse = None

\* One request is answered per behaviour: requests do not see one another.
RunCodeActions ==
    /\ ~caRequest.some
    /\ \E path \in Paths, range \in RequestRanges : code_actions(path, range)

ActionNext == RunCodeActions

SpecAction == ActionInit /\ [][ActionNext]_vars

\* The claim's conditions on the i-th reference of the requested document.
Qualifies(refs, i) ==
    /\ ~\E rb \in referenceables : RefKey(refs[i], caRequest.val.path) \in rb.strict
    /\ \A c \in 1..Len(refs[i].reference_text) : refs[i].reference_text[c] # "#"
    /\ refs[i].range.start.line = caRequest.val.range.start.line
    /\ refs[i].range.start.character <= caRequest.val.range.start.character
    /\ refs[i].range.end.character >= caRequest.val.range.end.character

ActionsOf(reference) ==
    {k \in 1..Len(caResponse.val) : caResponse.val[k].edit[1].of = reference}

(***************************************************************************)
(* C5: the response holds one create-file action for a reference of the    *)
(* requested document exactly when that reference is unresolved under      *)
(* matches_reference, has no '#' in its target text, starts on the line    *)
(* where the selection starts, at or before its start column, and ends at  *)
(* or after its end column; every qualifying reference gets its own        *)
(* action, and no other action is returned.                                *)
(***************************************************************************)
C5_ActionIffCandidate ==
    caResponse.some =>
        LET refs == md_files[caRequest.val.path].val
        IN  /\ \A i \in 1..Len(refs) :
                  Cardinality(ActionsOf(refs[i])) = IF Qualifies(refs, i) THEN 1 ELSE 0
            /\ Len(caResponse.val) = Cardinality({i \in 1..Len(refs) : Qualifies(refs, i)})
            /\ \A k \in 1..Len(caResponse.val) :
                  /\ Len(caResponse.val[k].edit) = 1
                  /\ caResponse.val[k].edit[1].op = "Create"

\* The cursor stands between an anchored reference and a plain unresolved
\* one, both containing it: only the plain one gets an action.
C5_Witness ==
    /\ caResponse.some
    /\ Len(caResponse.val) = 1
    /\ \E i \in 1..Len(md_files["a.md"].val) :
          LET r == md_files["a.md"].val[i]
          IN  /\ Contains(r.reference_text, "#")
              /\ r.range.start.line = caRequest.val.range.start.line
              /\ r.range.start.character <= caRequest.val.range.start.character
              /\ r.range.end.character >= caRequest.val.range.end.character
              /\ ActionsOf(r) = {}

\* Two adjacent qualifying references both answer a cursor between them.
C5_WitnessSeveral ==
    /\ caResponse.some
    /\ Len(caResponse.val) = 2
    /\ caResponse.val[1].edit[1].of.reference_text
          = caResponse.val[2].edit[1].of.reference_text

(***************************************************************************)
(* C6: the create-file edit of every action targets root/<target_text>.md, *)
(* the vault root joined with the complete target text and then ".md",     *)
(* also for a target text that holds a '.', and carries no overwrite       *)
(* option.                                                                 *)
(***************************************************************************)
C6_PathIsTextDotMd ==
    caResponse.some =>
        \A k \in 1..Len(caResponse.val) :
            LET edit == caResponse.val[k].edit[1]
            IN  /\ edit.uri.path = Root \o <<"/">> \o edit.of.reference_text \o <<".", "m", "d">>
                /\ edit.options = None

(***************************************************************************)
(* symbol.rs: workspace_symbol.                                            *)
(***************************************************************************)

\* The referenceables of the symbol model as the vault's accessors show
\* them: variant, get_path, get_range, get_refname.
SymbolReferenceables ==
    {[tag |-> "File", path |-> <<"/", "v", "/", "a", ".", "m", "d">>,
      range |-> None, refname |-> Some(<<"a">>)],
     [tag |-> "Heading", path |-> <<"/", "v", "/", "a", ".", "m", "d">>,
      range |-> Some(Range(2, 0, 2, 3)), refname |-> Some(<<"a", "#", "h">>)],
     [tag |-> "Tag", path |-> <<"/", "v", "/", "a", ".", "m", "d">>,
      range |-> Some(Range(3, 0, 3, 2)), refname |-> Some(<<"t">>)],
     [tag |-> "UnresovledFile", path |-> <<"a", ".", "m", "d">>,
      range |-> None, refname |-> Some(<<"u">>)]}

\* The vector select_referenceable_nodes returns, in some fixed order.
RECURSIVE VecOf(_)
VecOf(set) ==
    IF set = {} THEN <<>>
    ELSE LET x == CHOOSE x \in set : TRUE IN <<x>> \o VecOf(set \ {x})

FileStart == Range(0, 0, 0, 1)

\* Lines 23-53: the entry of one referenceable, None when it has no range,
\* no refname or no file url. The field offset is not in the source: it is
\* None for these entries and the day offset for the date entries.
referenceable_symbol(referenceable) ==
    LET range == IF referenceable.tag = "File" THEN Some(FileStart)
                 ELSE referenceable.range
        uri   == from_file_path(referenceable.path)
    IN  IF ~range.some \/ ~referenceable.refname.some \/ ~uri.some THEN None
        ELSE Some([name |-> referenceable.refname.val,
                   kind |-> IF referenceable.tag = "File" THEN "FILE"
                            ELSE IF referenceable.tag = "Tag" THEN "CONSTANT" ELSE "KEY",
                   location |-> [uri |-> uri.val, range |-> range.val],
                   offset |-> None])

RECURSIVE referenceable_symbols(_)
referenceable_symbols(vec) ==
    IF vec = <<>> THEN <<>>
    ELSE OptFlatten(LET e == referenceable_symbol(vec[1])
                    IN  IF e.some THEN Some(<<e.val>>) ELSE None)
         \o referenceable_symbols(Tail(vec))

\* Lines 56-58.
date_to_filename(format, day) == FormatDate(DateOf(day), format)

\* Lines 60-74; now is what Local::now() answers when it is called.
relative_date_string(day, now) ==
    IF now = day THEN Some(<<"today">>)
    ELSE LET num_days == day - now
         IN  IF num_days = 1 THEN Some(<<"tomorrow">>)
             ELSE IF num_days \in 2..7 THEN Some(<<"next ", WeekdayOf(day)>>)
             ELSE IF num_days = -1 THEN Some(<<"yesterday">>)
             ELSE IF num_days \in (-7)..(-1) THEN Some(<<"last ", WeekdayOf(day)>>)
             ELSE None

\* Lines 76-79.
date_to_match_string(format, day, now) ==
    LET refname == date_to_filename(format, day)
        rel     == relative_date_string(day, now)
    IN  IF rel.some THEN Some(rel.val \o <<": ">> \o refname) ELSE None

\* The url of line 93, built from the formatted name alone.
date_symbol_uri(format, day) == from_file_path(date_to_filename(format, day))

\* Lines 88-108: the entry of the day at offset i; the clock reads now
\* when the entry is made.
date_symbol(format, day0, i, now) ==
    LET name == date_to_match_string(format, day0 + i, now)
        uri  == date_symbol_uri(format, day0 + i)
    IN  IF ~name.some \/ ~uri.some THEN None
        ELSE Some([name |-> name.val,
                   kind |-> "FILE",
                   location |-> [uri |-> uri.val, range |-> FileStart],
                   offset |-> Some(i)])

\* Lines 82-109: the entries of the offsets i..7. The clock passes midnight
\* before the entry of offset midnight is made (8: it does not).
RECURSIVE date_symbols(_, _, _, _)
date_symbols(format, day0, i, midnight) ==
    IF i > 7 THEN <<>>
    ELSE OptFlatten(LET e == date_symbol(format, day0, i,
                                         IF i >= midnight THEN day0 + 1 ELSE day0)
                    IN  IF e.some THEN Some(<<e.val>>) ELSE None)
         \o date_symbols(format, day0, i + 1, midnight)

workspace_symbol(midnight) ==
    /\ wsResponse' = Some(referenceable_symbols(VecOf(referenceables))
                          \o date_symbols(dailynote, today, -7, midnight))
    /\ today' = IF midnight <= 7 THEN today + 1 ELSE today
    /\ UNCHANGED <<dailynote, referenceables, md_files, published, caRequest,
                   caResponse, treeVars, noteVars>>

(***************************************************************************)
(* The symbol model: any daily-note format, any few referenceables, and    *)
(* the days going by.                                                      *)
(***************************************************************************)
MaxToday == 9

\* Daily-note formats: the default, dotted, yearly, and one that names an
\* absolute path.
DailyFormats ==
    {DefaultDailynote,
     <<"%d", ".", "%m", ".", "%Y">>,
     <<"%Y">>,
     <<"/", "v", "/", "%Y", "-", "%m", "-", "%d">>}

SymbolInit ==
    /\ TreeIdle
    /\ NoteIdle
    /\ md_files = [p \in Paths |-> None]
    /\ referenceables \in SUBSET SymbolReferenceables
    /\ published = [p \in Paths |-> None]
    /\ caRequest = None
    /\ caResponse = None
    /\ dailynote \in DailyFormats
    /\ today = 7
    /\ wsResponse = None

\* The clock passes midnight.
Tick ==
    /\ today < MaxToday
    /\ today' = today + 1
    /\ UNCHANGED <<dailynote, wsResponse, vaultVars, treeVars, noteVars>>

\* after: how many of the 15 date entries are made after midnight.
RunWorkspaceSymbol ==
    \E after \in 0..15 :
        /\ after > 0 => today < MaxToday
        /\ workspace_symbol(8 - after)

SymbolNext == Tick \/ RunWorkspaceSymbol

SpecSymbol == SymbolInit /\ [][SymbolNext]_vars

DateEntries(i) ==
    {k \in 1..Len(wsResponse.val) : wsResponse.val[k].offset = Some(i)}

(***************************************************************************)
(* C7: for every daily-note format, the response of workspace_symbol ends  *)
(* with one date entry for each of the 15 day offsets -7..7, after all     *)
(* entries made from referenceables, each located at a file address.       *)
(***************************************************************************)
C7_FifteenDateEntries ==
    wsResponse.some =>
        /\ \A i \in (-7)..7 :
              /\ Cardinality(DateEntries(i)) = 1
              /\ \A k \in DateEntries(i) :
                    /\ wsResponse.val[k].location.uri.scheme = "file"
                    /\ IsAbsolute(wsResponse.val[k].location.uri.path)
        /\ \A k \in 1..Len(wsResponse.val) :
              (wsResponse.val[k].offset = None) =>
                  \A j \in 1..(k - 1) : wsResponse.val[j].offset = None

(***************************************************************************)
(* daily.rs: Notebook::match_filename and match_notebook. A notebook is    *)
(* its name (the key of settings.notebooks), its folder and its            *)
(* note_format.                                                            *)
(***************************************************************************)
Notebook(name, folder, note_format) ==
    [name |-> name, folder |-> folder, note_format |-> note_format]

\* How many of the first width characters of s are leading digits.
RECURSIVE LeadingDigits(_, _)
LeadingDigits(s, width) ==
    IF width = 0 \/ s = <<>> \/ ~IsDigit(s[1]) THEN 0
    ELSE 1 + LeadingDigits(Tail(s), width - 1)

RECURSIVE NumberOf(_)
NumberOf(digits) ==
    IF digits = <<>> THEN 0 ELSE 10 * NumberOf(Front(digits)) + DigitOf(Last(digits))

\* Parsed::set_year / set_month / set_day: out of range, or in conflict
\* with a value the field already has, is an error (None).
ParsedSet(parsed, field, value) ==
    IF field = "month" /\ value \notin 1..12 THEN None
    ELSE IF field = "day" /\ value \notin 1..31 THEN None
    ELSE IF parsed[field].some /\ parsed[field].val # value THEN None
    ELSE Some([parsed EXCEPT ![field] = Some(value)])

\* chrono::format::parse_and_remainder(parsed, s, items).is_ok(): every
\* item in turn takes its text from the front of s; what is left over is
\* the remainder and no error.
RECURSIVE parse_and_remainder(_, _, _)
parse_and_remainder(parsed, s, items) ==
    IF items = <<>> THEN TRUE
    ELSE IF items[1] \in Specifiers
    THEN LET n   == LeadingDigits(s, WidthOf(items[1]))
             set == ParsedSet(parsed, FieldOf(items[1]), NumberOf(SubSeq(s, 1, n)))
         IN  /\ n >= 1
             /\ set.some
             /\ parse_and_remainder(set.val, SubSeq(s, n + 1, Len(s)), Tail(items))
    ELSE /\ s # <<>>
         /\ s[1] = items[1]
         /\ parse_and_remainder(parsed, Tail(s), Tail(items))

ParsedNew == [year |-> None, month |-> None, day |-> None]

\* Notebook::match_filename
match_filename(notebook, filename) ==
    parse_and_remainder(ParsedNew, filename, notebook.note_format)

\* match_notebook: the first notebook, in configured order, that matches.
RECURSIVE first_match(_, _)
first_match(nbs, filename) ==
    IF nbs = <<>> THEN None
    ELSE IF match_filename(nbs[1], filename) THEN Some(nbs[1])
    ELSE first_match(Tail(nbs), filename)

\* A match_notebook that prefers the last notebook that matches.
RECURSIVE last_match(_, _)
last_match(nbs, filename) ==
    IF nbs = <<>> THEN None
    ELSE IF match_filename(Last(nbs), filename) THEN Some(Last(nbs))
    ELSE last_match(Front(nbs), filename)

match_notebook_last(context, filename) == last_match(context, filename)

match_notebook(context, filename) == first_match(context, filename)

(***************************************************************************)
(* The notebook model: any few notebooks, and match_notebook called with   *)
(* the name one of them gives a date, as it is or with the extension.      *)
(***************************************************************************)
MaxNotebooks == 2

MaxMatchDay == 14

NotebookNames == <<"n1", "n2", "n3", "n4">>

NoteFormats ==
    {DefaultDailynote,
     <<"%d", ".", "%m", ".", "%Y">>,
     <<"%Y">>,
     <<"%Y", "-", "%m">>,
     <<"%m", "-", "%d">>}

Folders == {<<"j">>, <<"w", "/", "k">>}

\* settings.notebooks: distinct names, in order.
NotebookLists(max, formats) ==
    {[i \in 1..Len(c) |-> Notebook(NotebookNames[i], c[i][1], c[i][2])] :
        c \in SeqsUpTo(Folders \X formats, max)}

MatchInit ==
    /\ TreeIdle
    /\ VaultIdle
    /\ SymbolIdle
    /\ notebooks \in NotebookLists(MaxNotebooks, NoteFormats)
    /\ matchCall = None
    /\ files = <<>>
    /\ dirs = {<<"/">>, Root}
    /\ noteCall = None

\* The name notebook i gives a day, and match_notebook called with it.
\* One call is made per behaviour: the calls do not see one another.
RunMatchNotebook ==
    /\ ~matchCall.some
    /\ \E i \in 1..Len(notebooks), day \in 0..MaxMatchDay, ext \in {<<>>, <<".", "m", "d">>} :
        LET filename == FormatDate(DateOf(day), notebooks[i].note_format) \o ext
        IN  /\ matchCall' = Some([of |-> i, filename |-> filename,
                                  result |-> match_notebook(notebooks, filename)])
    /\ UNCHANGED <<notebooks, files, dirs, noteCall, treeVars, vaultVars, symbolVars>>

MatchNext == RunMatchNotebook

SpecMatch == MatchInit /\ [][MatchNext]_vars

\* The notebooks before the n-th whose format parses the filename.
EarlierMatches(n, filename) ==
    {j \in 1..(n - 1) : match_filename(notebooks[j], filename)}

(***************************************************************************)
(* C8 as stated: formatting a date with notebook N's note_format and       *)
(* passing the filename to match_notebook returns N itself, also when      *)
(* notebooks configured before N parse the same filename.                  *)
(***************************************************************************)
C8_RoundTripReturnsSame ==
    matchCall.some =>
        /\ matchCall.val.result.some
        /\ matchCall.val.result.val.name = notebooks[matchCall.val.of].name

(***************************************************************************)
(* C8 amended: match_notebook returns the first notebook, in configured    *)
(* order, whose format parses the filename (a remainder is tolerated), and *)
(* nothing when none does. For a filename made with N's note_format it     *)
(* returns N only when no notebook configured before N parses that         *)
(* filename; when one does, it returns the first of those instead.         *)
(***************************************************************************)
C8_FirstMatchWins ==
    matchCall.some =>
        LET n        == matchCall.val.of
            filename == matchCall.val.filename
            result   == matchCall.val.result
            matching == {j \in 1..Len(notebooks) : match_filename(notebooks[j], filename)}
        IN  /\ matching = {} => ~result.some
            /\ matching # {} =>
                  /\ result.some
                  /\ \E j \in matching :
                        /\ result.val.name = notebooks[j].name
                        /\ \A k \in matching : j <= k
            /\ (result.some /\ result.val.name = notebooks[n].name)
                  <=> (n \in matching /\ EarlierMatches(n, filename) = {})

C8_Witness ==
    /\ matchCall.some
    /\ matchCall.val.of = 2
    /\ matchCall.val.result.some
    /\ matchCall.val.result.val.name = "n1"
    /\ notebooks[1].note_format # notebooks[2].note_format

(***************************************************************************)
(* commands.rs: datetime_to_file and note, with the file system calls it   *)
(* makes (std::fs) and the requests it sends to the client.                *)
(***************************************************************************)

\* fuzzydate::parse of the date strings of the model, at day now.
DateStrs == {"today", "tomorrow", "gibberish"}

parse(date_str, now) ==
    IF date_str = "today" THEN Some(now)
    ELSE IF date_str = "tomorrow" THEN Some(now + 1)
    ELSE None

\* Path::parent: the path without its last component.
parent(path) ==
    LET k == LastIndexOf(path, EffEnd(path), "/")
    IN  IF EffEnd(path) = 0 \/ k = 0 THEN None
        ELSE IF k = 1 THEN Some(<<"/">>)
        ELSE Some(SubSeq(path, 1, k - 1))

\* The directories create_dir_all(dir) makes sure of: dir and what is
\* above it.
RECURSIVE DirsUpTo(_)
DirsUpTo(dir) ==
    IF dir = <<"/">> \/ ~parent(dir).some THEN {dir}
    ELSE {dir} \cup DirsUpTo(parent(dir).val)

\* Lines 12-21.
datetime_to_file(day, dailynote_format, root_dir) ==
    LET filename == FormatDate(DateOf(day), dailynote_format)
        path     == PathPush(root_dir, filename)
    IN  from_file_path(set_extension(path, Md))

\* settings.notebooks.get(name)
notebooks_get(name) ==
    LET hits == {i \in 1..Len(notebooks) : notebooks[i].name = name}
    IN  IF hits = {} THEN None ELSE Some(notebooks[CHOOSE i \in hits : TRUE])

invalid_params(msg) == [code |-> "InvalidParams", message |-> msg]

Ok(v) == [ok |-> TRUE, value |-> v]

Err(e) == [ok |-> FALSE, error |-> e]

\* File::create that truncates what is there, in the place of create_new.
create_truncating(path, allowed) ==
    IF allowed /\ parent(path).some /\ parent(path).val \in dirs' /\ path \notin dirs'
    THEN [ok |-> TRUE, files |-> [p \in DOMAIN files \cup {path} |-> <<>>]]
    ELSE [ok |-> FALSE, files |-> files]

\* File::create_new(path): creates the empty file, and fails when the path
\* exists, when its directory does not, or when the system refuses. It
\* reads the directories as create_dir_all has left them.
create_new(path, allowed) ==
    IF /\ allowed
       /\ parent(path).some
       /\ parent(path).val \in dirs'
       /\ path \notin DOMAIN files
       /\ path \notin dirs'
    THEN [ok |-> TRUE,
          files |-> [p \in DOMAIN files \cup {path} |->
                        IF p = path THEN <<>> ELSE files[p]]]
    ELSE [ok |-> FALSE, files |-> files]

\* {:?} of a string: the text between quotes. Texts are sequences of
\* pieces here.
Debug(text) == <<"\"">> \o text \o <<"\"">>

\* Lines 49-63 with a failed creation returned as the command's error, and
\* no request to the client.
open_note_checked(uri, path, made, shown) ==
    LET attempts == <<[op |-> "create_dir_all", path |-> parent(path)],
                      [op |-> "create_new", path |-> path, ok |-> made.ok]>>
        show     == [op |-> "show_document", uri |-> uri,
                     external |-> Some(FALSE), take_focus |-> Some(TRUE),
                     selection |-> None, reply |-> shown]
    IN  IF made.ok
        THEN [events |-> Append(attempts, show),
              result |-> IF shown.ok THEN Ok(Some(shown.value)) ELSE shown]
        ELSE [events |-> attempts,
              result |-> Err([code |-> "InternalError", message |-> <<>>])]

\* Lines 49-63: what the command does with the address it resolved. The
\* results of create_dir_all and create_new are dropped (let _ =), the
\* client is asked to show the document and its reply, an acknowledgement
\* or an error, is the result. made is what create_new returned, shown the
\* client's reply to show_document.
open_note(uri, path, made, shown) ==
    [events |-> <<[op |-> "create_dir_all", path |-> parent(path)],
                  [op |-> "create_new", path |-> path, ok |-> made.ok],
                  [op |-> "show_document", uri |-> uri,
                   external |-> Some(FALSE), take_focus |-> Some(TRUE),
                   selection |-> None, reply |-> shown]>>,
     result |-> IF shown.ok THEN Ok(Some(shown.value)) ELSE shown]

\* Lines 23-76. date_str is an Option. dir_allowed and file_allowed say
\* whether the system lets create_dir_all and create_new succeed; shown
\* is the client's answer to show_document.
note(name, date_str, dir_allowed, file_allowed, shown) ==
    LET notebook == notebooks_get(name)
    IN  IF ~notebook.some
        THEN /\ noteCall' = Some([notebook |-> name, date_str |-> date_str,
                                  uri |-> None, events |-> <<>>,
                                  result |-> Err(invalid_params(<<"Notebook does not exist">>))])
             /\ UNCHANGED <<files, dirs>>
        ELSE LET note_format == notebook.val.note_format
                 note_path   == PathPush(Root, notebook.val.folder)
                 note_file   ==
                     IF date_str.some
                     THEN LET dt == parse(date_str.val, today)
                          IN  IF dt.some
                              THEN datetime_to_file(dt.val, note_format, note_path)
                              ELSE None
                     ELSE datetime_to_file(today, note_format, note_path)
             IN  IF note_file.some
                 THEN LET uri    == note_file.val
                          path   == to_file_path(uri)
                          made   == create_new(path, file_allowed)
                          opened == open_note(uri, path, made, shown)
                      IN  /\ dirs' = IF parent(path).some /\ dir_allowed
                                     THEN dirs \cup DirsUpTo(parent(path).val)
                                     ELSE dirs
                          /\ files' = made.files
                          /\ noteCall' =
                               Some([notebook |-> name, date_str |-> date_str,
                                     uri |-> Some(uri),
                                     events |-> opened.events,
                                     result |-> opened.result])
                 ELSE /\ noteCall' =
                           Some([notebook |-> name, date_str |-> date_str,
                                 uri |-> None,
                                 events |->
                                   <<[op |-> "log_message", type |-> "ERROR",
                                      message |-> <<"could not parse ", date_str, ": ",
                                                    IF date_str.some
                                                    THEN Some(parse(date_str.val, today))
                                                    ELSE None>>]>>,
                                 result |-> Err(invalid_params(
                                     <<"Could not parse journal format (">>
                                     \o Debug(note_format)
                                     \o <<") as a valid uri: ">>
                                     \o Debug(note_format) \o <<".">>))])
                      /\ UNCHANGED <<files, dirs>>

(***************************************************************************)
(* The note model: one configured notebook (note reads no other than the   *)
(* one it looks up), the note command run for its name or an unknown one   *)
(* and any date string, and the user writing into the notes that exist.    *)
(***************************************************************************)
NoteCommandFormats ==
    {DefaultDailynote,
     <<"%d", ".", "%m", ".", "%Y">>,
     <<"%Y", ".", "%m", ".", "%d">>}

\* What the client answers to show_document.
ShowAnswers == {Ok(TRUE), Ok(FALSE), Err([code |-> "InternalError", message |-> <<>>])}

NoteInit ==
    /\ TreeIdle
    /\ VaultIdle
    /\ SymbolIdle
    /\ notebooks \in {<<Notebook("n1", folder, format)>> :
                         folder \in Folders, format \in NoteCommandFormats}
    /\ matchCall = None
    /\ files = <<>>
    /\ dirs = {<<"/">>, Root}
    /\ noteCall = None

RunNote ==
    \E name \in {"n1", "n2"},
       date_str \in {None} \cup {Some(d) : d \in DateStrs},
       dir_allowed \in BOOLEAN, file_allowed \in BOOLEAN, shown \in ShowAnswers :
        /\ note(name, date_str, dir_allowed, file_allowed, shown)
        /\ UNCHANGED <<notebooks, matchCall, treeVars, vaultVars, symbolVars>>

\* The user writes into a note that exists.
UserWrites ==
    \E path \in DOMAIN files :
        /\ files[path] = <<>>
        /\ files' = [files EXCEPT ![path] = <<"t">>]
        /\ UNCHANGED <<dirs, noteCall, notebooks, matchCall, treeVars, vaultVars, symbolVars>>

NoteNext == RunNote \/ UserWrites

SpecNote == NoteInit /\ [][NoteNext]_vars

\* The path the last note command resolved.
NotePath == to_file_path(noteCall.val.uri.val)

(***************************************************************************)
(* C9: the note command never changes the content of a file that exists:   *)
(* it creates the file only when it is absent, and a run whose file is     *)
(* already there (a second run for the same notebook and date) leaves the  *)
(* files and directories as they were.                                     *)
(***************************************************************************)
C9_NoteKeepsExistingFiles ==
    [][(noteCall' # noteCall \/ dirs' # dirs \/ \E p \in DOMAIN files' : p \notin DOMAIN files) =>
          /\ \A p \in DOMAIN files : p \in DOMAIN files' /\ files'[p] = files[p]
          /\ \A p \in DOMAIN files' : p \notin DOMAIN files => files'[p] = <<>>
          /\ (noteCall'.val.uri.some /\ to_file_path(noteCall'.val.uri.val) \in DOMAIN files) =>
                (files' = files /\ dirs' = dirs)]_vars

\* The command ran for a note the user had written into, and the text is
\* still there.
C9_Witness ==
    /\ noteCall.some
    /\ noteCall.val.uri.some
    /\ NotePath \in DOMAIN files
    /\ files[NotePath] = <<"t">>
    /\ noteCall.val.events[2].op = "create_new"
    /\ ~noteCall.val.events[2].ok

(***************************************************************************)
(* C10: the file note creates and opens is <root>/<folder>/<F>.md, F being *)
(* the complete string the date formats to with the notebook's pattern,    *)
(* also for a pattern that holds a '.', such as %d.%m.%Y.                  *)
(***************************************************************************)
C10_FileIsFormattedNameDotMd ==
    (noteCall.some /\ noteCall.val.uri.some) =>
        LET nb  == notebooks[1]
            day == IF noteCall.val.date_str = Some("tomorrow") THEN today + 1 ELSE today
        IN  NotePath = Root \o <<"/">> \o nb.folder \o <<"/">>
                            \o FormatDate(DateOf(day), nb.note_format)
                            \o <<".", "m", "d">>

(***************************************************************************)
(* The outline state machine: the indexer appends headings to the document *)
(* and document_symbol answers with the tree of the current snapshot.      *)
(***************************************************************************)
TreeInit ==
    /\ TreeIdle
    /\ VaultIdle
    /\ NoteIdle
    /\ SymbolIdle

\* The indexer re-reads the document after an edit that adds a heading.
IndexHeading ==
    /\ Len(headings) < MaxHeadings
    /\ \E l \in HeadingLevels :
          headings' = Append(headings, MDHeading(l, Len(headings) + 1))
    /\ UNCHANGED <<outline, outlineOf, vaultVars, symbolVars, noteVars>>

\* symbol.rs: document_symbol. The ? on construct_tree makes the response
\* None for a document without headings.
document_symbol ==
    /\ outline' = construct_tree(headings)
    /\ outlineOf' = headings
    /\ UNCHANGED <<headings, vaultVars, symbolVars, noteVars>>

TreeNext == IndexHeading \/ document_symbol

SpecTree == TreeInit /\ [][TreeNext]_vars

(***************************************************************************)
(* C1: flattening the forest construct_tree returns in pre-order (a node,  *)
(* then its children, then its next sibling) gives back exactly the input  *)
(* sequence of headings: none lost, none duplicated, none reordered.       *)
(***************************************************************************)
C1_PreOrderIsInput == PreOrder(outline) = outlineOf

C1_Witness ==
    /\ outline.some
    /\ Len(outlineOf) >= 4
    /\ \E i \in 1..Len(outline.val) : outline.val[i].children.some
    /\ Len(outline.val) >= 2

(***************************************************************************)
(* C2 as stated: any two headings of equal level are siblings (same parent *)
(* node, or both roots) and neither is an ancestor of the other.           *)
(***************************************************************************)
C2_EqualLevelAlwaysSiblings ==
    \A i, j \in 1..Len(outlineOf) :
        (i < j /\ outlineOf[i].level = outlineOf[j].level) =>
            /\ ParentOf(outline, i) = ParentOf(outline, j)
            /\ ~IsAncestor(outline, i, j)
            /\ ~IsAncestor(outline, j, i)

(***************************************************************************)
(* C2 amended: two headings of equal level are never nested in one another *)
(* (neither is an ancestor of the other), and they are siblings whenever   *)
(* no heading of a strictly smaller level stands between them in the       *)
(* input.                                                                  *)
(***************************************************************************)
C2_EqualLevelNeverNested ==
    \A i, j \in 1..Len(outlineOf) :
        (i < j /\ outlineOf[i].level = outlineOf[j].level) =>
            /\ ~IsAncestor(outline, i, j)
            /\ ~IsAncestor(outline, j, i)
            /\ (\A k \in (i + 1)..(j - 1) : outlineOf[k].level >= outlineOf[i].level)
                  => ParentOf(outline, i) = ParentOf(outline, j)

C2_Witness ==
    /\ outline.some
    /\ \E i, j \in 1..Len(outlineOf) :
          /\ i + 1 < j
          /\ outlineOf[i].level = outlineOf[j].level
          /\ \A k \in (i + 1)..(j - 1) : outlineOf[k].level > outlineOf[i].level
          /\ ParentOf(outline, i) = ParentOf(outline, j)
          /\ ParentOf(outline, i) > 0

\* The lines of the subtree rooted at the node of line i.
Subtree(forest, i) ==
    {i} \cup {b \in 1..Len(outlineOf) : IsAncestor(forest, i, b)}

\* The first position after i whose heading has a level <= that of i, or
\* the position after the end.
SectionEnd(hs, i) ==
    LET ends == {j \in (i + 1)..Len(hs) : hs[j].level <= hs[i].level}
    IN  IF ends = {} THEN Len(hs) + 1 ELSE CHOOSE j \in ends : \A k \in ends : j <= k

\* The nearest position before i whose heading has a strictly smaller
\* level, or 0.
NearestSmaller(hs, i) ==
    LET ups == {j \in 1..(i - 1) : hs[j].level < hs[i].level}
    IN  IF ups = {} THEN 0 ELSE CHOOSE j \in ups : \A k \in ups : k <= j

(***************************************************************************)
(* C12: in the forest construct_tree builds, the subtree of the heading at *)
(* position i holds exactly that heading and the headings after it up to   *)
(* the first one of a level <= its own (or to the end); the parent of a    *)
(* heading is the nearest preceding heading of a strictly smaller level,   *)
(* and it is a root when there is none. Gaps in the levels change nothing. *)
(***************************************************************************)
C12_SubtreeIsSection ==
    \A i \in 1..Len(outlineOf) :
        /\ Subtree(outline, i) = i..(SectionEnd(outlineOf, i) - 1)
        /\ ParentOf(outline, i) = NearestSmaller(outlineOf, i)

\* A level-3 heading directly under a level-1 heading, with a level-2
\* heading of the same section after it and a section that runs to the end.
C12_Witness ==
    /\ outline.some
    /\ Len(outlineOf) >= 4
    /\ \E i \in 1..(Len(outlineOf) - 2) :
          /\ outlineOf[i].level = 1
          /\ outlineOf[i + 1].level = 3
          /\ outlineOf[i + 2].level = 2
          /\ ParentOf(outline, i + 1) = i
          /\ ParentOf(outline, i + 2) = i
          /\ SectionEnd(outlineOf, i) = Len(outlineOf) + 1
          /\ Subtree(outline, i) = i..Len(outlineOf)

\* sub occurs in s as a run of consecutive pieces.
IsInfix(sub, s) ==
    \E i \in 0..(Len(s) - Len(sub)) : SubSeq(s, i + 1, i + Len(sub)) = sub

\* The positions of the events of the given operations in a run of note.
EventsOf(call, ops) == {i \in 1..Len(call.events) : call.events[i].op \in ops}

(***************************************************************************)
(* C11: a run of note for a configured notebook with a date string that    *)
(* fuzzy parsing rejects returns an invalid-parameter error whose message  *)
(* holds both the raw date string and the notebook's format string, logs   *)
(* one error-level message, creates no file and no directory and sends no  *)
(* show-document request.                                                  *)
(***************************************************************************)
C11_ParseFailureReport ==
    [][(/\ noteCall' # noteCall
        /\ notebooks_get(noteCall'.val.notebook).some
        /\ noteCall'.val.date_str.some
        /\ ~parse(noteCall'.val.date_str.val, today).some) =>
          LET call    == noteCall'.val
              format  == notebooks_get(call.notebook).val.note_format
          IN  /\ ~call.result.ok
              /\ call.result.error.code = "InvalidParams"
              /\ IsInfix(<<call.date_str.val>>, call.result.error.message)
              /\ IsInfix(format, call.result.error.message)
              /\ Cardinality(EventsOf(call, {"log_message"})) = 1
              /\ \A i \in EventsOf(call, {"log_message"}) : call.events[i].type = "ERROR"
              /\ EventsOf(call, {"show_document"}) = {}
              /\ files' = files
              /\ dirs' = dirs]_vars

(***************************************************************************)
(* C13: in every run of note that resolved a file address, the directory   *)
(* and file creation is attempted first and exactly one show-document      *)
(* request for that address, with take_focus = true, follows it, whether   *)
(* the creation succeeded or not; the result of the command is the         *)
(* client's reply, and a failed creation never makes it an error.          *)
(***************************************************************************)
C13_ShowFollowsCreation ==
    (noteCall.some /\ noteCall.val.uri.some) =>
        LET call    == noteCall.val
            creates == EventsOf(call, {"create_dir_all", "create_new"})
            shows   == EventsOf(call, {"show_document"})
        IN  /\ creates # {}
            /\ Cardinality(shows) = 1
            /\ \A c \in creates, sh \in shows : c < sh
            /\ \A sh \in shows :
                  LET show == call.events[sh]
                  IN  /\ show.uri = call.uri.val
                      /\ show.take_focus = Some(TRUE)
                      /\ call.result = IF show.reply.ok
                                       THEN Ok(Some(show.reply.value))
                                       ELSE show.reply
                      /\ show.reply.ok => call.result.ok

\* The creation failed although the file was not there, the client was
\* asked all the same and its acknowledgement is the result.
C13_Witness ==
    /\ noteCall.some
    /\ noteCall.val.uri.some
    /\ NotePath \notin DOMAIN files
    /\ noteCall.val.events[2].op = "create_new"
    /\ ~noteCall.val.events[2].ok
    /\ Len(noteCall.val.events) = 3
    /\ noteCall.val.events[3].op = "show_document"
    /\ noteCall.val.result = Ok(Some(TRUE))

=============================================================================
